---- MODULE Spec2Model ----
(***************************************************************************)
(* Model of henVideoCompress (src/main.py): a batch driver that lists the  *)
(* video files of a directory and, one file at a time, reads the source    *)
(* modification time, probes the file, derives a rotation-aware filter     *)
(* chain, runs the encoder and finally sets the destination's timestamps.  *)
(* The file system, the prober and the encoder are the environment: their  *)
(* outcomes (values returned, exceptions raised) are chosen                *)
(* nondeterministically.                                                   *)
(***************************************************************************)
EXTENDS Integers, Sequences, FiniteSets, TLC

\* ---------------------------------------------------------------- bounds
NumFiles == 2
MaxDim == 2
MaxTime == 3

\* ------------------------------------------------- directory and file names
\* A file name is <<id, extension>>; the id stands for the stem.
Exts == {"mp4", "MOV", "txt"}

Lower(ext) ==
  CASE ext = "MOV" -> "mov"
    [] ext = "MP4" -> "mp4"
    [] OTHER -> ext

is_video_file(filepath) == Lower(filepath[2]) \in {"mp4", "mov"}

RECURSIVE get_video_files(_)
get_video_files(names) ==
  IF names = <<>> THEN <<>>
  ELSE (IF is_video_file(Head(names)) THEN <<Head(names)>> ELSE <<>>)
         \o get_video_files(Tail(names))

Listings == UNION {[1..n -> Exts] : n \in 0..NumFiles}

Ids == 1..NumFiles

\* ------------------------------------------------------------ probe results
\* A stream of the probe result.  has_rotate / has_dims say whether the
\* keys tags.rotate and width/height are present in the dictionary.
Digits == {"0", "1", "2", "3", "4", "5", "6", "7", "8", "9"}

DigitVal(c) ==
  CASE c = "0" -> 0 [] c = "1" -> 1 [] c = "2" -> 2 [] c = "3" -> 3
    [] c = "4" -> 4 [] c = "5" -> 5 [] c = "6" -> 6 [] c = "7" -> 7
    [] c = "8" -> 8 [] c = "9" -> 9

RotateTags ==
  { <<"0">>, <<"9", "0">>, <<"1", "8", "0">>, <<"2", "7", "0">>,
    <<"4", "5">>, <<"-", "9", "0">>, <<"3", "6", "0">>, <<"a", "b">> }

DimPairs == ((1..MaxDim) \X (1..MaxDim)) \cup {<<1920, 1080>>}

AudioStream ==
  [codec_type |-> "audio", has_dims |-> FALSE, width |-> 0, height |-> 0,
   has_rotate |-> FALSE, rotate |-> <<>>]

NoStream ==
  [codec_type |-> "none", has_dims |-> FALSE, width |-> 0, height |-> 0,
   has_rotate |-> FALSE, rotate |-> <<>>]

VideoStreams ==
  { [codec_type |-> "video", has_dims |-> TRUE, width |-> d[1], height |-> d[2],
     has_rotate |-> TRUE, rotate |-> t] : d \in DimPairs, t \in RotateTags }
  \cup
  { [codec_type |-> "video", has_dims |-> TRUE, width |-> d[1], height |-> d[2],
     has_rotate |-> FALSE, rotate |-> <<>>] : d \in DimPairs }
  \cup
  { [codec_type |-> "video", has_dims |-> FALSE, width |-> 0, height |-> 0,
     has_rotate |-> TRUE, rotate |-> <<"9", "0">>] }

ProbeResults ==
  { <<>>, <<AudioStream>> }
  \cup { <<v>> : v \in VideoStreams }
  \cup { <<AudioStream, v>> : v \in VideoStreams }

\* next((s for s in probe['streams'] if s['codec_type'] == 'video'), None)
RECURSIVE FirstVideoStream(_)
FirstVideoStream(streams) ==
  IF streams = <<>> THEN NoStream
  ELSE IF Head(streams).codec_type = "video" THEN Head(streams)
  ELSE FirstVideoStream(Tail(streams))

\* ------------------------------------------------------------------- int()
IntBody(s) == IF s # <<>> /\ s[1] \in {"-", "+"} THEN Tail(s) ELSE s

IntValid(s) ==
  /\ IntBody(s) # <<>>
  /\ \A i \in 1..Len(IntBody(s)) : IntBody(s)[i] \in Digits

RECURSIVE DigitsValue(_)
DigitsValue(s) ==
  IF s = <<>> THEN 0
  ELSE DigitsValue(SubSeq(s, 1, Len(s) - 1)) * 10 + DigitVal(s[Len(s)])

ParseInt(s) ==
  IF s[1] = "-" THEN 0 - DigitsValue(IntBody(s)) ELSE DigitsValue(IntBody(s))

\* int(x) of a float quotient n/d: truncation toward zero
Trunc(n, d) == IF n >= 0 THEN n \div d ELSE 0 - ((0 - n) \div d)

\* ------------------------------------------------------ geometry and filters
\* video_stream.get('tags', {}).get('rotate', 0) before int()
RotateValid(stream) == (~stream.has_rotate) \/ IntValid(stream.rotate)

Rotation(stream) == IF stream.has_rotate THEN ParseInt(stream.rotate) ELSE 0

is_rotated_Always(rotation) == rotation # 0

is_rotated(rotation) == rotation \in {90, 270}

CorrectedWidth(stream) ==
  IF is_rotated(Rotation(stream)) THEN stream.height ELSE stream.width

CorrectedHeight(stream) ==
  IF is_rotated(Rotation(stream)) THEN stream.width ELSE stream.height

TargetWidth_Half(width) == width \div 2

\* int(width/1.5)
TargetWidth(width) == Trunc(width * 10, 15)

Transpose(dir) == <<"transpose", dir>>

Scale(w, h) == <<"scale", w, h, "decrease">>

BuildFilters_Flipped(rotation, width, height) ==
  (IF rotation # 0
     THEN <<Transpose(IF rotation = 90 THEN 2 ELSE 1)>>
     ELSE <<>>)
  \o <<Scale(TargetWidth(width), height)>>

BuildFilters(rotation, width, height) ==
  (IF rotation # 0
     THEN <<Transpose(IF rotation = 90 THEN 1 ELSE 2)>>
     ELSE <<>>)
  \o <<Scale(TargetWidth(width), height)>>

\* -------------------------------------------------------------------- state
VARIABLES
  listing,          \* os.listdir(input_dir): the names in the input directory
  video_files,      \* main: the names that passed is_video_file
  pc,               \* position of the single control flow
  idx,              \* main: position of the for loop in video_files
  success_count,    \* main: success_count
  summary,          \* the final "成功处理 s/t" line: <<s, t>>, or <<>> before it
  raised,           \* the exception that left process_video and main, or "none"
  original_mtime,   \* process_video: original_mtime (0 outside the call)
  video_stream,     \* process_video: video_stream
  rotation,         \* process_video: rotation
  width,            \* process_video: width  (after the swap)
  height,           \* process_video: height (after the swap)
  vf_filters,       \* process_video: vf_filters
  clock,            \* file-system time
  srcMtime,         \* modification time of each source file
  destMtime,        \* modification time of each destination (0: no file)
  destAtime,        \* access time of each destination (0: no file)
  fstate,           \* per-file stage reached
  captured,         \* per file: the value getmtime returned (0: none)
  probeCalls,       \* per file: number of ffmpeg.probe calls
  encodeCalls,      \* per file: number of encoder runs
  encodeOk,         \* per file: the encoder run returned normally
  utimeCalls,       \* per file: number of successful os.utime calls
  utimeFailed,      \* per file: os.utime raised
  noVideo           \* per file: the probe result had no video stream

locals == <<original_mtime, video_stream, rotation, width, height, vf_filters>>
env == <<clock, srcMtime, destMtime, destAtime>>
hist == <<fstate, captured, probeCalls, encodeCalls, encodeOk, utimeCalls,
          utimeFailed, noVideo>>
vars == <<listing, video_files, pc, idx, success_count, summary, raised,
          locals, env, hist>>

Names(l) == [i \in DOMAIN l |-> <<i, l[i]>>]

\* the file the for loop is at
Cur == video_files[idx][1]

Init ==
  /\ listing \in {Names(l) : l \in Listings}
  /\ video_files = <<>>
  /\ pc = "main"
  /\ idx = 0
  /\ success_count = 0
  /\ summary = <<>>
  /\ raised = "none"
  /\ original_mtime = 0
  /\ video_stream = NoStream
  /\ rotation = 0
  /\ width = 0
  /\ height = 0
  /\ vf_filters = <<>>
  /\ clock = 2
  /\ srcMtime = [f \in Ids |-> 1]
  /\ destMtime = [f \in Ids |-> 0]
  /\ destAtime = [f \in Ids |-> 0]
  /\ fstate = [f \in Ids |-> "Pending"]
  /\ captured = [f \in Ids |-> 0]
  /\ probeCalls = [f \in Ids |-> 0]
  /\ encodeCalls = [f \in Ids |-> 0]
  /\ encodeOk = [f \in Ids |-> FALSE]
  /\ utimeCalls = [f \in Ids |-> 0]
  /\ utimeFailed = [f \in Ids |-> FALSE]
  /\ noVideo = [f \in Ids |-> FALSE]

ClearLocals ==
  /\ original_mtime' = 0
  /\ video_stream' = NoStream
  /\ rotation' = 0
  /\ width' = 0
  /\ height' = 0
  /\ vf_filters' = <<>>

\* main, up to the for loop: list the directory, stop when nothing matches
ListVideoFiles ==
  /\ pc = "main"
  /\ video_files' = get_video_files(listing)
  /\ IF get_video_files(listing) = <<>>
       THEN pc' = "nofiles" /\ idx' = idx
       ELSE pc' = "loop" /\ idx' = 1
  /\ success_count' = 0
  /\ UNCHANGED <<listing, summary, raised, locals, env, hist>>

\* main after the for loop: the summary line
Summary ==
  /\ pc = "loop"
  /\ idx > Len(video_files)
  /\ summary' = <<success_count, Len(video_files)>>
  /\ pc' = "done"
  /\ UNCHANGED <<listing, video_files, idx, success_count, raised, locals, env, hist>>

ReturnToMain_CountAll(result) ==
  /\ success_count' = success_count + 1
  /\ idx' = idx + 1
  /\ pc' = "loop"
  /\ ClearLocals

\* process_video returns result to main: count it, go to the next file
ReturnToMain(result) ==
  /\ success_count' = (IF result THEN success_count + 1 ELSE success_count)
  /\ idx' = idx + 1
  /\ pc' = "loop"
  /\ ClearLocals

\* an exception no handler catches leaves process_video and main
Propagate(exc) ==
  /\ raised' = exc
  /\ pc' = "crashed"
  /\ UNCHANGED <<idx, success_count>>
  /\ ClearLocals

\* for filename in video_files: process_video(...) begins with os.path.getmtime
GetMtime ==
  /\ pc = "loop"
  /\ idx <= Len(video_files)
  /\ \/ /\ original_mtime' = srcMtime[Cur]
        /\ captured' = [captured EXCEPT ![Cur] = srcMtime[Cur]]
        /\ pc' = "probe"
        /\ UNCHANGED <<idx, success_count, raised, video_stream, rotation,
                       width, height, vf_filters>>
     \/ /\ Propagate("OSError")
        /\ UNCHANGED captured
  /\ UNCHANGED <<listing, video_files, summary, env, fstate, probeCalls,
                 encodeCalls, encodeOk, utimeCalls, utimeFailed, noVideo>>

\* ffmpeg.probe, the selection of the video stream and the no-stream return
Probe ==
  /\ pc = "probe"
  /\ probeCalls' = [probeCalls EXCEPT ![Cur] = @ + 1]
  /\ \/ \E streams \in ProbeResults :
          IF FirstVideoStream(streams) = NoStream
            THEN /\ noVideo' = [noVideo EXCEPT ![Cur] = TRUE]
                 /\ fstate' = [fstate EXCEPT ![Cur] = "Failed"]
                 /\ ReturnToMain(FALSE)
                 /\ UNCHANGED raised
            ELSE /\ video_stream' = FirstVideoStream(streams)
                 /\ fstate' = [fstate EXCEPT ![Cur] = "Probed"]
                 /\ pc' = "plan"
                 /\ UNCHANGED <<idx, success_count, raised, original_mtime,
                                rotation, width, height, vf_filters, noVideo>>
     \/ /\ fstate' = [fstate EXCEPT ![Cur] = "Failed"]   \* ffmpeg.Error
        /\ ReturnToMain(FALSE)
        /\ UNCHANGED <<raised, noVideo>>
  /\ UNCHANGED <<listing, video_files, summary, env, captured, encodeCalls,
                 encodeOk, utimeCalls, utimeFailed>>

\* rotation, dimensions, filter chain and output options
Plan ==
  /\ pc = "plan"
  /\ IF ~RotateValid(video_stream)
       THEN Propagate("ValueError") /\ UNCHANGED fstate
     ELSE IF ~video_stream.has_dims
       THEN Propagate("KeyError") /\ UNCHANGED fstate
     ELSE /\ rotation' = Rotation(video_stream)
          /\ width' = CorrectedWidth(video_stream)
          /\ height' = CorrectedHeight(video_stream)
          /\ vf_filters' = BuildFilters(Rotation(video_stream),
                                        CorrectedWidth(video_stream),
                                        CorrectedHeight(video_stream))
          /\ fstate' = [fstate EXCEPT ![Cur] = "Planned"]
          /\ pc' = "run"
          /\ UNCHANGED <<idx, success_count, raised, original_mtime, video_stream>>
  /\ UNCHANGED <<listing, video_files, summary, env, captured, probeCalls,
                 encodeCalls, encodeOk, utimeCalls, utimeFailed, noVideo>>

\* ffmpeg.input(...).output(...).run(overwrite_output=True) is started
RunStart ==
  /\ pc = "run"
  /\ encodeCalls' = [encodeCalls EXCEPT ![Cur] = @ + 1]
  /\ fstate' = [fstate EXCEPT ![Cur] = "Encoding"]
  /\ pc' = "encoding"
  /\ UNCHANGED <<listing, video_files, idx, success_count, summary, raised,
                 locals, env, captured, probeCalls, encodeOk, utimeCalls,
                 utimeFailed, noVideo>>

RunFinish_Retry ==
  /\ pc = "encoding"
  /\ \/ /\ encodeOk' = [encodeOk EXCEPT ![Cur] = TRUE]
        /\ destMtime' = [destMtime EXCEPT ![Cur] = clock]
        /\ destAtime' = [destAtime EXCEPT ![Cur] = clock]
        /\ pc' = "utime"
        /\ UNCHANGED <<idx, success_count, locals, fstate>>
     \/ /\ \E written \in BOOLEAN :
             /\ destMtime' = [destMtime EXCEPT ![Cur] = IF written THEN clock ELSE @]
             /\ destAtime' = [destAtime EXCEPT ![Cur] = IF written THEN clock ELSE @]
        /\ fstate' = [fstate EXCEPT ![Cur] = "Planned"]
        /\ pc' = (IF encodeCalls[Cur] < 2 THEN "run" ELSE "encoding")
        /\ UNCHANGED <<idx, success_count, locals, encodeOk>>
  /\ UNCHANGED <<listing, video_files, summary, raised, clock, srcMtime,
                 captured, probeCalls, encodeCalls, utimeCalls, utimeFailed,
                 noVideo>>

\* the encoder exits: normally, or with ffmpeg.Error (caught: return False)
RunFinish ==
  /\ pc = "encoding"
  /\ \/ /\ encodeOk' = [encodeOk EXCEPT ![Cur] = TRUE]
        /\ destMtime' = [destMtime EXCEPT ![Cur] = clock]
        /\ destAtime' = [destAtime EXCEPT ![Cur] = clock]
        /\ pc' = "utime"
        /\ UNCHANGED <<idx, success_count, locals, fstate>>
     \/ /\ \E written \in BOOLEAN :
             /\ destMtime' = [destMtime EXCEPT ![Cur] = IF written THEN clock ELSE @]
             /\ destAtime' = [destAtime EXCEPT ![Cur] = IF written THEN clock ELSE @]
        /\ fstate' = [fstate EXCEPT ![Cur] = "Failed"]
        /\ ReturnToMain(FALSE)
        /\ UNCHANGED encodeOk
  /\ UNCHANGED <<listing, video_files, summary, raised, clock, srcMtime,
                 captured, probeCalls, encodeCalls, utimeCalls, utimeFailed,
                 noVideo>>

Utime_FromStat ==
  /\ pc = "utime"
  /\ \/ /\ destAtime' = [destAtime EXCEPT ![Cur] = srcMtime[Cur]]
        /\ destMtime' = [destMtime EXCEPT ![Cur] = srcMtime[Cur]]
        /\ utimeCalls' = [utimeCalls EXCEPT ![Cur] = @ + 1]
        /\ fstate' = [fstate EXCEPT ![Cur] = "Succeeded"]
        /\ ReturnToMain(TRUE)
        /\ UNCHANGED <<raised, utimeFailed>>
     \/ /\ utimeFailed' = [utimeFailed EXCEPT ![Cur] = TRUE]
        /\ Propagate("OSError")
        /\ UNCHANGED <<destAtime, destMtime, utimeCalls, fstate>>
  /\ UNCHANGED <<listing, video_files, summary, clock, srcMtime, captured,
                 probeCalls, encodeCalls, encodeOk, noVideo>>

\* os.utime(output_path, (original_mtime, original_mtime)); return True
Utime ==
  /\ pc = "utime"
  /\ \/ /\ destAtime' = [destAtime EXCEPT ![Cur] = original_mtime]
        /\ destMtime' = [destMtime EXCEPT ![Cur] = original_mtime]
        /\ utimeCalls' = [utimeCalls EXCEPT ![Cur] = @ + 1]
        /\ fstate' = [fstate EXCEPT ![Cur] = "Succeeded"]
        /\ ReturnToMain(TRUE)
        /\ UNCHANGED <<raised, utimeFailed>>
     \/ /\ utimeFailed' = [utimeFailed EXCEPT ![Cur] = TRUE]   \* OSError, not caught
        /\ Propagate("OSError")
        /\ UNCHANGED <<destAtime, destMtime, utimeCalls, fstate>>
  /\ UNCHANGED <<listing, video_files, summary, clock, srcMtime, captured,
                 probeCalls, encodeCalls, encodeOk, noVideo>>

\* environment: another process writes one of the listed video files that
\* the batch has not finished with (a finished file's source is not read again)
TouchSource ==
  /\ pc \in {"loop", "probe", "plan", "run", "encoding", "utime"}
  /\ clock < MaxTime
  /\ \E i \in 1..Len(video_files) :
       /\ fstate[video_files[i][1]] \notin {"Succeeded", "Failed"}
       /\ clock' = clock + 1
       /\ srcMtime' = [srcMtime EXCEPT ![video_files[i][1]] = clock + 1]
  /\ UNCHANGED <<listing, video_files, pc, idx, success_count, summary, raised,
                 locals, destMtime, destAtime, hist>>

Next ==
  \/ ListVideoFiles
  \/ GetMtime
  \/ Probe
  \/ Plan
  \/ RunStart
  \/ RunFinish
  \/ Utime
  \/ TouchSource
  \/ Summary

Spec == Init /\ [][Next]_vars

\* ------------------------------------------------------------------ claims
Terminal == {"Succeeded", "Failed"}

ValidRotations == {0, 90, 180, 270}

\* the positions at which the plan of the current file is held
PlanHeld == pc \in {"run", "encoding", "utime"}

ScaleStage == vf_filters[Len(vf_filters)]

Matching == {i \in DOMAIN listing : is_video_file(listing[i])}

\* C1: when the encode of a file succeeded and setting the destination's
\* timestamps then fails, the failure is caught, the file still ends
\* Succeeded and is counted, and the batch goes on.
C1_TimestampFailureNotFatal ==
  \A f \in Ids :
    (encodeOk[f] /\ utimeFailed[f]) =>
      /\ pc # "crashed"
      /\ fstate[f] = "Succeeded"
      /\ success_count >= 1

\* C2: no per-file failure aborts the batch: whenever the run has ended
\* after the listing was non-empty, every matching file has been processed
\* to a terminal state and the summary line has been printed.
C2_ErrorsIsolated ==
  (pc \in {"done", "crashed"}) =>
    /\ summary # <<>>
    /\ \A i \in 1..Len(video_files) : fstate[video_files[i][1]] \in Terminal

\* C3: a Succeeded file's destination has modification and access time equal
\* to the source modification time captured before probing and encoding, set
\* once, after the encoder finished; a Failed file's destination timestamps
\* are never set; the capture precedes the probe.
C3_TimestampsFromCapturedMtime ==
  \A f \in Ids :
    /\ fstate[f] = "Succeeded" =>
         /\ captured[f] # 0
         /\ destMtime[f] = captured[f]
         /\ destAtime[f] = captured[f]
         /\ utimeCalls[f] = 1
    /\ fstate[f] = "Failed" => utimeCalls[f] = 0
    /\ utimeCalls[f] > 0 => encodeOk[f]
    /\ probeCalls[f] > 0 => captured[f] # 0
    /\ encodeCalls[f] > 0 => captured[f] # 0

C3_Witness ==
  \E f \in Ids :
    /\ fstate[f] = "Succeeded"
    /\ srcMtime[f] # captured[f]
    /\ destMtime[f] = captured[f]

\* C4: for rotation 180 the filter chain has no transpose stage, only the
\* scale stage.
C4_NoTransposeFor180 ==
  (PlanHeld /\ rotation = 180) =>
    /\ Len(vf_filters) = 1
    /\ vf_filters[1][1] = "scale"

\* C5: rotation 90 gives exactly [transpose=1, scale], 270 gives exactly
\* [transpose=2, scale], 0 gives exactly [scale]; a transpose stage comes
\* before the scale stage and the scale stage is last, with policy decrease.
C5_FilterChainShape ==
  PlanHeld =>
    /\ rotation = 90 =>
         /\ Len(vf_filters) = 2
         /\ vf_filters[1] = <<"transpose", 1>>
         /\ vf_filters[2][1] = "scale"
    /\ rotation = 270 =>
         /\ Len(vf_filters) = 2
         /\ vf_filters[1] = <<"transpose", 2>>
         /\ vf_filters[2][1] = "scale"
    /\ rotation = 0 =>
         /\ Len(vf_filters) = 1
         /\ vf_filters[1][1] = "scale"
    /\ Len(vf_filters) >= 1
    /\ ScaleStage[1] = "scale"
    /\ ScaleStage[4] = "decrease"
    /\ \A i \in 1..Len(vf_filters) :
         /\ vf_filters[i][1] = "transpose" => i < Len(vf_filters)
         /\ vf_filters[i][1] = "scale" => i = Len(vf_filters)
    /\ (rotation = 90 /\ video_stream.width = 1920 /\ video_stream.height = 1080)
         => vf_filters = << <<"transpose", 1>>, <<"scale", 720, 1920, "decrease">> >>
    /\ (rotation = 0 /\ video_stream.width = 1920 /\ video_stream.height = 1080)
         => vf_filters = << <<"scale", 1280, 1080, "decrease">> >>

C5_Witness ==
  /\ pc = "encoding"
  /\ rotation = 90
  /\ video_stream.width = 1920
  /\ Len(vf_filters) = 2

\* C6: for rotation 90 or 270 the corrected dimensions are the raw ones
\* swapped, for 0 or 180 they are the raw ones; the scale stage's height is
\* the corrected height, unscaled.
C6_CorrectedDimensions ==
  PlanHeld =>
    /\ rotation \in {90, 270} =>
         /\ width = video_stream.height
         /\ height = video_stream.width
         /\ ScaleStage[3] = video_stream.width
    /\ rotation \in {0, 180} =>
         /\ width = video_stream.width
         /\ height = video_stream.height
         /\ ScaleStage[3] = video_stream.height
    /\ ScaleStage[3] = height

C6_Witness ==
  /\ pc = "run"
  /\ rotation = 270
  /\ video_stream.width # video_stream.height
  /\ width = video_stream.height

C8_InvalidRotationRejected ==
  PlanHeld => rotation \in ValidRotations

\* C9: a file without a video stream is skipped without an encoder run, is
\* not counted, and the loop moves past it; the success count never exceeds
\* the number of matching files, and the summary reports the number of files
\* whose encode succeeded out of the number of matching files.
C9_SkipAndTally ==
  /\ \A i \in 1..Len(video_files) :
       noVideo[video_files[i][1]] =>
         /\ encodeCalls[video_files[i][1]] = 0
         /\ fstate[video_files[i][1]] = "Failed"
         /\ idx > i
  /\ success_count = Cardinality({f \in Ids : fstate[f] = "Succeeded"})
  /\ success_count <= Len(video_files)
  /\ pc = "done" =>
       /\ summary[1] = Cardinality({f \in Ids : encodeOk[f]})
       /\ summary[2] = Cardinality(Matching)
       /\ summary[1] <= summary[2]

C9_Witness ==
  /\ pc = "done"
  /\ summary = <<1, 2>>
  /\ \E f \in Ids : noVideo[f]
  /\ \E f \in Ids : encodeOk[f]

StepAllowed(a, b) ==
  \/ a = b
  \/ <<a, b>> \in { <<"Pending", "Probed">>, <<"Probed", "Planned">>,
                    <<"Planned", "Encoding">>, <<"Encoding", "Succeeded">>,
                    <<"Encoding", "Failed">>, <<"Pending", "Failed">> }

Active == {f \in Ids : fstate[f] \notin (Terminal \cup {"Pending"})}

====
